---- MODULE Spec2Model ----
(***************************************************************************)
(* A model of the Pokemon stock tracker: the in-memory subscription        *)
(* registry and stock table (RetailerDatabase), the background polling     *)
(* task (PokemonTracker.check_stock_task), the slash commands that mutate  *)
(* the registry, the retailers' HTTP request executor                      *)
(* (BaseRetailer._make_request and WalmartRetailer._make_request) and the  *)
(* purchase command (RetailerCog.buy_command).                             *)
(*                                                                         *)
(* Coroutines run on one event loop: a coroutine runs without interruption *)
(* until it reaches an await.  Each action below runs one coroutine from   *)
(* one await (or its start) to the next.                                   *)
(***************************************************************************)
EXTENDS Integers, Sequences, FiniteSets, TLC

\* ------------------------------------------------------------------------
\* Bounds of the model
\* ------------------------------------------------------------------------
\* slash commands issued in one run of the registry alone (SpecRegistry)
MaxCmds == 3
\* slash commands that interleave with the polling task in one run (Spec)
MaxPollCmds == 1
\* iterations of the tasks.loop body in one run of the polling task alone
MaxTicks == 3
\* iterations of the tasks.loop body in one run with interleaved commands
MaxCmdTicks == 1
\* the largest retry budget a caller passes to _make_request
MaxRetries == 3
\* /buy invocations of one run
MaxBuys == 2
\* the most notifications put on the queue in a run
MaxMsgs == 3
\* consecutive check_stock calls of one run
MaxChecks == 2
\* time is counted in 1/TimeUnit seconds
TimeUnit == 2

\* ------------------------------------------------------------------------
\* Value domains
\* ------------------------------------------------------------------------
Users == {"u1", "u2"}
Products == {"Walmart:ETB", "Target:Tin"}
\* prices drawn by random.uniform(20.0, 120.0), two representatives
Prices == {1, 2}
\* thresholds a user may give to /buylist add
Thresholds == {1, 2}
\* channel ids a user may set; the bot's cache resolves only KnownChannels
Channels == {"c1", "c9"}
KnownChannels == {"c1"}
\* Python's None where a price is expected
NoPrice == 0
\* Python's None where a channel id is expected
NoChannel == "None"
NoUser == "-"
NoProduct == "-"

EmptyDict == [x \in {} |-> 0]
DictPut(d, k, v) == [x \in (DOMAIN d) \cup {k} |-> IF x = k THEN v ELSE d[x]]
DictDel(d, k) == [x \in (DOMAIN d) \ {k} |-> d[x]]

InList(x, s) == \E i \in 1..Len(s) : s[i] = x
\* list.remove(x): drops the first occurrence of x
RECURSIVE ListRemove(_, _)
ListRemove(s, x) ==
    IF s = <<>> THEN <<>>
    ELSE IF Head(s) = x THEN Tail(s)
    ELSE <<Head(s)>> \o ListRemove(Tail(s), x)
Count(x, s) == Cardinality({i \in 1..Len(s) : s[i] = x})

\* ------------------------------------------------------------------------
\* RetailerDatabase: user_tracking is a dict in insertion order,
\* modelled as a sequence of [user, list] entries
\* ------------------------------------------------------------------------
TrackKeys(ut) == {ut[i].user : i \in 1..Len(ut)}
TrackIdx(ut, u) == CHOOSE i \in 1..Len(ut) : ut[i].user = u
TrackList(ut, u) == ut[TrackIdx(ut, u)].list

\* add_to_tracking without the membership test (a plausible slip)
add_to_tracking_nocheck(ut, user_id, product) ==
    LET ut1 == IF user_id \notin TrackKeys(ut)
               THEN Append(ut, [user |-> user_id, list |-> <<>>])
               ELSE ut
        i == TrackIdx(ut1, user_id)
    IN [db |-> [ut1 EXCEPT ![i].list = Append(@, product)], ret |-> TRUE]

add_to_tracking(ut, user_id, product) ==
    LET ut1 == IF user_id \notin TrackKeys(ut)
               THEN Append(ut, [user |-> user_id, list |-> <<>>])
               ELSE ut
        i == TrackIdx(ut1, user_id)
    IN IF ~InList(product, ut1[i].list)
       THEN [db |-> [ut1 EXCEPT ![i].list = Append(@, product)], ret |-> TRUE]
       ELSE [db |-> ut1, ret |-> FALSE]

\* remove_from_tracking that creates the user's list before looking into it
remove_from_tracking_create(ut, user_id, product) ==
    LET ut1 == IF user_id \notin TrackKeys(ut)
               THEN Append(ut, [user |-> user_id, list |-> <<>>])
               ELSE ut
        i == TrackIdx(ut1, user_id)
    IN IF InList(product, ut1[i].list)
       THEN [db |-> [ut1 EXCEPT ![i].list = ListRemove(@, product)], ret |-> TRUE]
       ELSE [db |-> ut1, ret |-> FALSE]

remove_from_tracking(ut, user_id, product) ==
    IF user_id \in TrackKeys(ut) /\ InList(product, TrackList(ut, user_id))
    THEN [db |-> [ut EXCEPT ![TrackIdx(ut, user_id)].list = ListRemove(@, product)],
          ret |-> TRUE]
    ELSE [db |-> ut, ret |-> FALSE]

get_tracking_list(ut, user_id) ==
    IF user_id \in TrackKeys(ut) THEN TrackList(ut, user_id) ELSE <<>>

\* a threshold already stored is kept (setdefault instead of assignment)
add_to_buylist_keep(ub, user_id, product, price_threshold) ==
    LET ub1 == IF user_id \notin DOMAIN ub THEN DictPut(ub, user_id, EmptyDict) ELSE ub
    IN [db |-> IF product \in DOMAIN ub1[user_id] THEN ub1
               ELSE [ub1 EXCEPT ![user_id] = DictPut(@, product, price_threshold)],
        ret |-> TRUE]

add_to_buylist(ub, user_id, product, price_threshold) ==
    LET ub1 == IF user_id \notin DOMAIN ub THEN DictPut(ub, user_id, EmptyDict) ELSE ub
    IN [db |-> [ub1 EXCEPT ![user_id] = DictPut(@, product, price_threshold)],
        ret |-> TRUE]

\* the user's whole buylist is dropped instead of the one product
remove_from_buylist_clear(ub, user_id, product) ==
    IF user_id \in DOMAIN ub /\ product \in DOMAIN ub[user_id]
    THEN [db |-> [ub EXCEPT ![user_id] = EmptyDict], ret |-> TRUE]
    ELSE [db |-> ub, ret |-> FALSE]

remove_from_buylist(ub, user_id, product) ==
    IF user_id \in DOMAIN ub /\ product \in DOMAIN ub[user_id]
    THEN [db |-> [ub EXCEPT ![user_id] = DictDel(@, product)], ret |-> TRUE]
    ELSE [db |-> ub, ret |-> FALSE]

get_buylist(ub, user_id) ==
    IF user_id \in DOMAIN ub THEN ub[user_id] ELSE EmptyDict

set_notification_channel(uc, user_id, channel_id) ==
    [db |-> DictPut(uc, user_id, channel_id), ret |-> TRUE]

get_notification_channel(uc, user_id) ==
    IF user_id \in DOMAIN uc THEN uc[user_id] ELSE NoChannel

\* bot.get_channel(channel_id): the channel object, or None for an id the
\* bot's cache does not hold
get_channel(channel_id) == channel_id \in KnownChannels

ProductUrl(product) == "https://example.com/" \o product

\* the entries _initialize_sample_stock may draw for one product
StockEntries(product) ==
    {[in_stock |-> FALSE, price |-> NoPrice, url |-> ProductUrl(product)]}
    \cup {[in_stock |-> TRUE, price |-> p, url |-> ProductUrl(product)] : p \in Prices}

check_stock(ss, product) ==
    IF product \in DOMAIN ss THEN ss[product]
    ELSE [in_stock |-> FALSE, price |-> NoPrice, url |-> "None"]

\* a poll that reports the current entry again instead of flipping it
simulate_stock_change_noflip(ss, product, rnd_price) ==
    [db |-> ss,
     ret |-> [product |-> product, in_stock |-> ss[product].in_stock,
              price |-> ss[product].price, url |-> ss[product].url]]

\* a product that goes out of stock keeps its last price
simulate_stock_change_stale(ss, product, rnd_price) ==
    LET in_stock == ~ss[product].in_stock
        price == IF in_stock THEN rnd_price ELSE ss[product].price
        url == ss[product].url
    IN [db |-> [ss EXCEPT ![product] =
                    [in_stock |-> in_stock, price |-> price, url |-> url]],
        ret |-> [product |-> product, in_stock |-> in_stock,
                 price |-> price, url |-> url]]

\* simulate_stock_change with random.choice(products) = product and
\* random.uniform(20.0, 120.0) = rnd_price
simulate_stock_change(ss, product, rnd_price) ==
    LET in_stock == ~ss[product].in_stock
        price == IF in_stock THEN rnd_price ELSE NoPrice
        url == ss[product].url
    IN [db |-> [ss EXCEPT ![product] =
                    [in_stock |-> in_stock, price |-> price, url |-> url]],
        ret |-> [product |-> product, in_stock |-> in_stock,
                 price |-> price, url |-> url]]

\* ------------------------------------------------------------------------
\* BaseRetailer._make_request and WalmartRetailer._make_request
\* ------------------------------------------------------------------------
\* retries=3 and delay=1 (second), the defaults of _make_request
DefaultRetries == 3
DefaultDelay == 1 * TimeUnit

Methods == {"GET", "POST", "PUT"}
Statuses == {200, 201, 403, 404, 429, 500}
\* what one request attempt ends with: a response, or an exception raised
\* by the session (aiohttp.ClientError, asyncio.TimeoutError)
Responses ==
    {[exc |-> "none", status |-> st] : st \in Statuses}
    \cup {[exc |-> e, status |-> 0] : e \in {"ClientError", "TimeoutError"}}
\* base delays a caller may pass: 0, 1/TimeUnit s, 1 s, 2 s
Delays == {0, 1, TimeUnit, 2 * TimeUnit}
\* random.uniform(0, 1) and random.uniform(1, 3)
Jitter429 == 0..TimeUnit
Jitter5xx == {TimeUnit, 2 * TimeUnit, 3 * TimeUnit}

RECURSIVE Pow2(_)
Pow2(n) == IF n = 0 THEN 1 ELSE 2 * Pow2(n - 1)

\* a backoff without the exponential factor
backoff_wait_flat(delay, attempt, jitter) == delay + jitter

\* wait_time = delay * (2 ** attempt) + random.uniform(...)
backoff_wait(delay, attempt, jitter) == delay * Pow2(attempt) + jitter

\* the if/elif chains of BaseRetailer._make_request
BaseClass(method, resp) ==
    IF resp.exc # "none" THEN "exception"
    ELSE IF method = "GET" THEN
        IF resp.status = 200 THEN "body"
        ELSE IF resp.status = 404 THEN "not_found"
        ELSE IF resp.status = 429 THEN "rate_limited"
        ELSE IF resp.status >= 500 THEN "server_error"
        ELSE "other"
    ELSE IF method = "POST" THEN
        IF resp.status \in {200, 201} THEN "body"
        ELSE IF resp.status >= 500 THEN "server_error"
        ELSE "other"
    ELSE "no_request"

\* response.raise_for_status() and the except clauses of
\* WalmartRetailer._make_request
WalmartClass(resp) ==
    IF resp.exc = "ClientError" THEN "client_error"
    ELSE IF resp.exc # "none" THEN "unexpected"
    ELSE IF resp.status >= 400 THEN "client_error"
    ELSE "body"

\* what a product page says once parsed; a page that yields no product data
\* parses to the defaults (in_stock False, price None)
Pages == {[in_stock |-> FALSE, price |-> NoPrice]}
         \cup {[in_stock |-> b, price |-> pr] : b \in BOOLEAN, pr \in Prices}
NoPage == [in_stock |-> FALSE, price |-> NoPrice]

\* get_product_details: {} when the fetch returned None, else the details
get_product_details(ok, page) ==
    IF ~ok THEN [empty |-> TRUE, in_stock |-> FALSE, price |-> NoPrice]
    ELSE [empty |-> FALSE, in_stock |-> page.in_stock, price |-> page.price]

\* check_stock: details.get("in_stock", False), details.get("price"),
\* details.get("url", default); the default url equals the details' url
adapter_check_stock(details) ==
    [in_stock |-> IF details.empty THEN FALSE ELSE details.in_stock,
     price |-> IF details.empty THEN NoPrice ELSE details.price,
     url |-> "product_url/product_id"]

\* ------------------------------------------------------------------------
\* State
\* ------------------------------------------------------------------------
VARIABLES
    user_tracking,  \* RetailerDatabase.user_tracking
    user_buylists,  \* RetailerDatabase.user_buylists
    user_channels,  \* RetailerDatabase.user_channels
    stock_status,   \* RetailerDatabase.stock_status
    task,           \* check_stock_task: position and locals of the loop body
    events,         \* history: the stock changes the task has fanned out
    sent,           \* history: the channel.send calls and whether they returned
    attempts,       \* history: auto-purchase blocks entered (line 443)
    last_call,      \* the last slash command and what it reported
    cmds_left,      \* slash commands the run may still issue
    nticks,         \* loop bodies started so far
    session,        \* BaseRetailer.session and _session_initialized of one adapter
    req,            \* one _make_request call: its arguments, position and trace
    buys,           \* the invocations of RetailerCog.buy_command, in order of arrival
    cart_id,        \* WalmartRetailer.cart_id
    held,           \* what a caller of get_tracking_list / get_buylist was returned
    notification_queue, \* RetailerCog.notification_queue, an unbounded asyncio.Queue
    consumer,       \* _process_notifications: its position and the message it holds
    deliveries,     \* history: the messages taken from the queue and what became of them
    bot_closed,     \* bot.is_closed()
    cancelled,      \* check_stock_task.cancel() has been called
    csrf_token,     \* WalmartRetailer.csrf_token
    checked         \* history: the check_stock call before the current one

dbVars == <<user_tracking, user_buylists, user_channels, stock_status>>
histVars == <<events, sent, attempts>>
trackerVars == <<user_tracking, user_buylists, user_channels, stock_status,
                 task, events, sent, attempts, last_call, cmds_left, nticks>>
fetchVars == <<session, req>>
buyVars == <<buys, cart_id, csrf_token>>
refVars == <<held>>
notifVars == <<notification_queue, consumer, deliveries, bot_closed>>
lifeVars == <<cancelled>>
probeVars == <<checked>>
restVars == <<notifVars, lifeVars, probeVars>>
\* what the PokemonTracker cog never touches
outsideTracker == <<fetchVars, buyVars, refVars, restVars>>
\* what a _make_request call never touches
outsideFetch == <<trackerVars, buyVars, refVars, restVars>>
\* what buy_command never touches
outsideBuy == <<trackerVars, fetchVars, refVars, restVars>>
\* what the notification consumer and its producers never touch
outsideNotify == <<trackerVars, fetchVars, buyVars, refVars, lifeVars, probeVars>>
vars == <<trackerVars, fetchVars, buyVars, refVars, restVars>>

IdleTask ==
    [pc |-> "idle", product |-> NoProduct, in_stock |-> FALSE, price |-> NoPrice,
     it |-> 0, it_size |-> 0, user_id |-> NoUser, channel_id |-> NoChannel,
     event |-> 0]

\* the task is parked at an await (or between ticks): other coroutines may run
Suspended == task.pc \in {"idle", "alert_send", "purchase_send"}

\* session and _session_initialized as __init__ leaves them; live counts the
\* ClientSession objects created and not closed
NoSession == [held |-> FALSE, initialized |-> FALSE, live |-> 0]
\* the adapter after initialize()
OpenSession == [held |-> TRUE, initialized |-> TRUE, live |-> 1]

\* BaseRetailer.initialize: a ClientSession is created when the flag is unset
initialize(s) ==
    IF ~s.initialized
    THEN [held |-> TRUE, initialized |-> TRUE, live |-> s.live + 1]
    ELSE s

\* BaseRetailer.close: the held session is closed and both fields are reset
close(s) ==
    IF s.held
    THEN [held |-> FALSE, initialized |-> FALSE, live |-> s.live - 1]
    ELSE s

NoReq ==
    [adapter |-> "none", caller |-> "none", product |-> NoProduct, method |-> "GET",
     retries |-> 0,
     delay |-> 0, pc |-> "none", attempt |-> 0, issued |-> 0, waits |-> <<>>,
     pauses |-> 0, only429 |-> TRUE, last |-> [exc |-> "none", status |-> 0],
     ok |-> FALSE, body |-> NoPage, exit |-> "none",
     stock |-> adapter_check_stock(get_product_details(FALSE, NoPage))]

\* no adapter request is in progress
FetchIdle == session = NoSession /\ req = NoReq

NoCart == "None"
NoToken == "None"
NoBuy == [pc |-> "none", user |-> NoUser, retailer |-> "-", product_id |-> "-",
          outcome |-> "none", calls |-> <<>>]
\* no /buy has been invoked and no cart was ever created
BuyIdle == buys = [i \in 1..MaxBuys |-> NoBuy] /\ cart_id = NoCart /\ csrf_token = NoToken

\* alias: the returned object is the one the registry stores
NoRef == [kind |-> "none", user |-> NoUser, alias |-> FALSE, list |-> <<>>,
          dict |-> EmptyDict, wrote |-> FALSE]
NoneHeld == held = NoRef

NoMsg == [id |-> 0, user |-> NoUser, by |-> "-", during |-> "-"]
\* RetailerCog.__init__: an empty queue, the consumer task created; the bot
\* is open and the polling task not cancelled
NotifyIdle ==
    /\ notification_queue = <<>>
    /\ consumer = [pc |-> "start", msg |-> NoMsg, naps |-> 0]
    /\ deliveries = <<>>
    /\ bot_closed = FALSE
Running == cancelled = FALSE

NoCheck == [n |-> 0, last |-> NoReq.last, body |-> NoPage, stock |-> NoReq.stock]
\* no check_stock call has returned yet
NoneChecked == checked = NoCheck

NoCall == [op |-> "none", user |-> NoUser, product |-> NoProduct, ret |-> FALSE]

StockTables ==
    {ss \in [Products -> UNION {StockEntries(p) : p \in Products}] :
        \A p \in Products : ss[p] \in StockEntries(p)}

\* RetailerDatabase.__init__ and PokemonTracker.__init__: empty registry,
\* a randomly drawn stock table, the task started and waiting
RegInit ==
    /\ user_tracking = <<>>
    /\ user_buylists = EmptyDict
    /\ user_channels = EmptyDict
    /\ stock_status \in StockTables
    /\ task = IdleTask
    /\ events = <<>>
    /\ sent = <<>>
    /\ attempts = <<>>
    /\ last_call = NoCall
    /\ cmds_left = MaxCmds
    /\ nticks = MaxTicks
    /\ FetchIdle
    /\ BuyIdle
    /\ NoneHeld
    /\ NotifyIdle
    /\ Running
    /\ NoneChecked

\* Registries the commands build from the empty one, used as the starting
\* points of the polling runs: each user is set up by the calls
\* add_to_tracking, set_notification_channel, add_to_buylist of one UserCfg
SeedProduct == "Walmart:ETB"
UserCfgs ==
    { [track |-> <<>>, chan |-> NoChannel, buy |-> <<>>],
      [track |-> <<SeedProduct>>, chan |-> "c1", buy |-> <<>>],
      [track |-> <<SeedProduct>>, chan |-> "c1", buy |-> <<1>>],
      [track |-> <<SeedProduct>>, chan |-> NoChannel, buy |-> <<1>>],
      [track |-> <<>>, chan |-> "c1", buy |-> <<1>>] }

RECURSIVE TrackAll(_, _, _)
TrackAll(ut, u, ks) ==
    IF ks = <<>> THEN ut
    ELSE TrackAll(add_to_tracking(ut, u, Head(ks)).db, u, Tail(ks))

SetupUser(reg, u, cfg) ==
    [ut |-> TrackAll(reg.ut, u, cfg.track),
     uc |-> IF cfg.chan # NoChannel
            THEN set_notification_channel(reg.uc, u, cfg.chan).db ELSE reg.uc,
     ub |-> IF cfg.buy # <<>>
            THEN add_to_buylist(reg.ub, u, SeedProduct, cfg.buy[1]).db ELSE reg.ub]

EmptyRegistry == [ut |-> <<>>, uc |-> EmptyDict, ub |-> EmptyDict]

Seeds ==
    {SetupUser(SetupUser(EmptyRegistry, "u1", c1), "u2", c2) : c1, c2 \in UserCfgs}

\* the polling runs start with the other product out of stock
PollStockTables == {ss \in StockTables : \A p \in Products \ {SeedProduct} : ~ss[p].in_stock}

PollInit ==
    /\ \E reg \in Seeds :
          /\ user_tracking = reg.ut
          /\ user_buylists = reg.ub
          /\ user_channels = reg.uc
    /\ stock_status \in PollStockTables
    /\ task = IdleTask
    /\ events = <<>>
    /\ sent = <<>>
    /\ attempts = <<>>
    /\ last_call = NoCall
    /\ FetchIdle
    /\ BuyIdle
    /\ NoneHeld
    /\ NotifyIdle
    /\ Running
    /\ NoneChecked

\* commands interleave with the last MaxCmdTicks loop bodies
Init ==
    /\ PollInit
    /\ cmds_left = MaxPollCmds
    /\ nticks = MaxTicks - MaxCmdTicks

\* no command is issued while the task runs
LoopInit ==
    /\ PollInit
    /\ cmds_left = 0
    /\ nticks = 0

\* ------------------------------------------------------------------------
\* Slash commands of PokemonTracker
\* ------------------------------------------------------------------------
CmdGuard == Suspended /\ cmds_left > 0

track_add(u, k) ==
    /\ CmdGuard
    /\ LET r == add_to_tracking(user_tracking, u, k)
       IN /\ user_tracking' = r.db
          /\ last_call' = [op |-> "track_add", user |-> u, product |-> k, ret |-> r.ret]
    /\ cmds_left' = cmds_left - 1
    /\ UNCHANGED <<user_buylists, user_channels, stock_status, task, histVars, nticks>>
    /\ UNCHANGED outsideTracker

track_remove(u, k) ==
    /\ CmdGuard
    /\ LET r == remove_from_tracking(user_tracking, u, k)
       IN /\ user_tracking' = r.db
          /\ last_call' = [op |-> "track_remove", user |-> u, product |-> k, ret |-> r.ret]
    /\ cmds_left' = cmds_left - 1
    /\ UNCHANGED <<user_buylists, user_channels, stock_status, task, histVars, nticks>>
    /\ UNCHANGED outsideTracker

buylist_add(u, k, t) ==
    /\ CmdGuard
    /\ LET r == add_to_buylist(user_buylists, u, k, t)
       IN /\ user_buylists' = r.db
          /\ last_call' = [op |-> "buylist_add", user |-> u, product |-> k, ret |-> r.ret,
                           threshold |-> t,
                           replaced |-> /\ u \in DOMAIN user_buylists
                                        /\ k \in DOMAIN user_buylists[u]
                                        /\ user_buylists[u][k] # t]
    /\ cmds_left' = cmds_left - 1
    /\ UNCHANGED <<user_tracking, user_channels, stock_status, task, histVars, nticks>>
    /\ UNCHANGED outsideTracker

buylist_remove(u, k) ==
    /\ CmdGuard
    /\ LET r == remove_from_buylist(user_buylists, u, k)
       IN /\ user_buylists' = r.db
          /\ last_call' = [op |-> "buylist_remove", user |-> u, product |-> k, ret |-> r.ret]
    /\ cmds_left' = cmds_left - 1
    /\ UNCHANGED <<user_tracking, user_channels, stock_status, task, histVars, nticks>>
    /\ UNCHANGED outsideTracker

settings_channel(u, c) ==
    /\ CmdGuard
    /\ LET r == set_notification_channel(user_channels, u, c)
       IN /\ user_channels' = r.db
          /\ last_call' = [op |-> "settings_channel", user |-> u, product |-> NoProduct,
                           ret |-> r.ret, channel |-> c,
                           replaced |-> /\ u \in DOMAIN user_channels
                                        /\ user_channels[u] # c]
    /\ cmds_left' = cmds_left - 1
    /\ UNCHANGED <<user_tracking, user_buylists, stock_status, task, histVars, nticks>>
    /\ UNCHANGED outsideTracker

\* the /simulate command: flips one product and answers the invoker only
simulate_command(k, rnd_price) ==
    /\ CmdGuard
    /\ LET r == simulate_stock_change(stock_status, k, rnd_price)
       IN /\ stock_status' = r.db
          /\ last_call' = [op |-> "simulate", user |-> NoUser, product |-> r.ret.product,
                           ret |-> r.ret.in_stock]
    /\ cmds_left' = cmds_left - 1
    /\ UNCHANGED <<user_tracking, user_buylists, user_channels, task, histVars, nticks>>
    /\ UNCHANGED outsideTracker

\* ------------------------------------------------------------------------
\* check_stock_task: one body of the tasks.loop, cut at its awaits
\* ------------------------------------------------------------------------
Entry(e) == [in_stock |-> e.in_stock, price |-> e.price]

\* a body that, without a change, reports the product of the last event
\* again to its subscribers (polling without change detection)
TickSkip_Repoll ==
    /\ Running
    /\ task.pc = "idle"
    /\ nticks < MaxTicks
    /\ nticks' = nticks + 1
    /\ IF events = <<>>
       THEN task' = task
       ELSE LET k == events[Len(events)].product
            IN task' = [IdleTask EXCEPT !.pc = "iter", !.product = k,
                          !.in_stock = stock_status[k].in_stock,
                          !.price = stock_status[k].price,
                          !.it = 0, !.it_size = Len(user_tracking),
                          !.event = Len(events)]
    /\ UNCHANGED <<dbVars, histVars, last_call, cmds_left>>
    /\ UNCHANGED outsideTracker

\* random.random() >= 0.2: the body does nothing
TickSkip ==
    /\ Running
    /\ task.pc = "idle"
    /\ nticks < MaxTicks
    /\ nticks' = nticks + 1
    /\ UNCHANGED <<dbVars, task, histVars, last_call, cmds_left>>
    /\ UNCHANGED outsideTracker

\* a loop that starts its next body on the timer although the previous one
\* is still suspended in a send
TickSimulate_Overlap(k, rnd_price) ==
    /\ Running
    /\ Suspended
    /\ nticks < MaxTicks
    /\ nticks' = nticks + 1
    /\ LET r == simulate_stock_change(stock_status, k, rnd_price)
       IN /\ stock_status' = r.db
          /\ events' = Append(events,
                 [product |-> r.ret.product, previous |-> Entry(stock_status[k]),
                  current |-> [in_stock |-> r.ret.in_stock, price |-> r.ret.price],
                  tick |-> nticks + 1])
          /\ task' = [IdleTask EXCEPT !.pc = "iter", !.product = r.ret.product,
                        !.in_stock = r.ret.in_stock, !.price = r.ret.price,
                        !.it = 0, !.it_size = Len(user_tracking),
                        !.event = Len(events) + 1]
    /\ UNCHANGED <<user_tracking, user_buylists, user_channels, sent, attempts,
                   last_call, cmds_left>>
    /\ UNCHANGED outsideTracker

\* random.random() < 0.2: simulate_stock_change(), then the for loop's
\* iterator over user_tracking.items() is created (lines 412-421)
TickSimulate(k, rnd_price) ==
    /\ Running
    /\ task.pc = "idle"
    /\ nticks < MaxTicks
    /\ nticks' = nticks + 1
    /\ LET r == simulate_stock_change(stock_status, k, rnd_price)
       IN /\ stock_status' = r.db
          /\ events' = Append(events,
                 [product |-> r.ret.product, previous |-> Entry(stock_status[k]),
                  current |-> [in_stock |-> r.ret.in_stock, price |-> r.ret.price],
                  tick |-> nticks + 1])
          /\ task' = [IdleTask EXCEPT !.pc = "iter", !.product = r.ret.product,
                        !.in_stock = r.ret.in_stock, !.price = r.ret.price,
                        !.it = 0, !.it_size = Len(user_tracking),
                        !.event = Len(events) + 1]
    /\ UNCHANGED <<user_tracking, user_buylists, user_channels, sent, attempts,
                   last_call, cmds_left>>
    /\ UNCHANGED outsideTracker

\* the except clause of line 458: the error is logged and the body ends
TickAbort == task' = IdleTask

\* a fan-out that takes every user with an entry for a subscriber
TickNext_All ==
    /\ task.pc = "iter"
    /\ IF Len(user_tracking) # task.it_size
       THEN TickAbort
       ELSE IF task.it >= Len(user_tracking)
       THEN task' = IdleTask
       ELSE LET item == user_tracking[task.it + 1]
                channel_id == get_notification_channel(user_channels, item.user)
            IN IF channel_id # NoChannel /\ get_channel(channel_id)
               THEN task' = [task EXCEPT !.it = @ + 1, !.user_id = item.user,
                               !.channel_id = channel_id, !.pc = "alert_send"]
               ELSE task' = [task EXCEPT !.it = @ + 1, !.user_id = item.user,
                               !.channel_id = channel_id, !.pc = "check_buy"]
    /\ UNCHANGED <<dbVars, histVars, last_call, cmds_left, nticks>>
    /\ UNCHANGED outsideTracker

\* next() of the dict iterator, then lines 422-438 up to the await
TickNext ==
    /\ task.pc = "iter"
    /\ IF Len(user_tracking) # task.it_size
       THEN TickAbort       \* RuntimeError: dictionary changed size during iteration
       ELSE IF task.it >= Len(user_tracking)
       THEN task' = IdleTask    \* StopIteration: the loop and the body end
       ELSE LET item == user_tracking[task.it + 1]
                channel_id == get_notification_channel(user_channels, item.user)
            IN IF ~InList(task.product, item.list)
               THEN task' = [task EXCEPT !.it = @ + 1]
               ELSE IF channel_id # NoChannel /\ get_channel(channel_id)
               THEN task' = [task EXCEPT !.it = @ + 1, !.user_id = item.user,
                               !.channel_id = channel_id, !.pc = "alert_send"]
               ELSE task' = [task EXCEPT !.it = @ + 1, !.user_id = item.user,
                               !.channel_id = channel_id, !.pc = "check_buy"]
    /\ UNCHANGED <<dbVars, histVars, last_call, cmds_left, nticks>>
    /\ UNCHANGED outsideTracker

\* await channel.send(alert) returns (line 438)
AlertSent ==
    /\ task.pc = "alert_send"
    /\ sent' = Append(sent, [user |-> task.user_id, kind |-> "alert",
                             event |-> task.event, ok |-> TRUE])
    /\ task' = [task EXCEPT !.pc = "check_buy"]
    /\ UNCHANGED <<dbVars, events, attempts, last_call, cmds_left, nticks>>
    /\ UNCHANGED outsideTracker

\* await channel.send(alert) raises (discord.HTTPException, Forbidden, ...)
AlertFailed ==
    /\ task.pc = "alert_send"
    /\ sent' = Append(sent, [user |-> task.user_id, kind |-> "alert",
                             event |-> task.event, ok |-> FALSE])
    /\ TickAbort
    /\ UNCHANGED <<dbVars, events, attempts, last_call, cmds_left, nticks>>
    /\ UNCHANGED outsideTracker

\* the test with a strict comparison
Qualifies_Strict(buylist, product, in_stock, price) ==
    /\ in_stock
    /\ product \in DOMAIN buylist
    /\ price # NoPrice
    /\ price < buylist[product]

\* the test of line 442
Qualifies(buylist, product, in_stock, price) ==
    /\ in_stock
    /\ product \in DOMAIN buylist
    /\ price # NoPrice
    /\ price <= buylist[product]

\* the adapter calls the purchase block of lines 443-456 makes: none, it
\* builds the "AUTO-PURCHASE SUCCESSFUL" embed and sends it
TickAttemptCalls == <<>>

\* lines 441-456 up to the await
CheckBuy ==
    /\ task.pc = "check_buy"
    /\ LET buylist == get_buylist(user_buylists, task.user_id)
       IN IF Qualifies(buylist, task.product, task.in_stock, task.price)
          THEN /\ attempts' = Append(attempts,
                      [user |-> task.user_id, product |-> task.product,
                       event |-> task.event])
               /\ IF task.channel_id # NoChannel /\ get_channel(task.channel_id)
                  THEN task' = [task EXCEPT !.pc = "purchase_send"]
                  ELSE task' = [task EXCEPT !.pc = "iter"]
          ELSE /\ attempts' = attempts
               /\ task' = [task EXCEPT !.pc = "iter"]
    /\ UNCHANGED <<dbVars, events, sent, last_call, cmds_left, nticks>>
    /\ UNCHANGED outsideTracker

\* await channel.send(purchase_embed) returns (line 456)
PurchaseSent ==
    /\ task.pc = "purchase_send"
    /\ sent' = Append(sent, [user |-> task.user_id, kind |-> "purchase",
                             event |-> task.event, ok |-> TRUE])
    /\ task' = [task EXCEPT !.pc = "iter"]
    /\ UNCHANGED <<dbVars, events, attempts, last_call, cmds_left, nticks>>
    /\ UNCHANGED outsideTracker

\* await channel.send(purchase_embed) raises
PurchaseFailed ==
    /\ task.pc = "purchase_send"
    /\ sent' = Append(sent, [user |-> task.user_id, kind |-> "purchase",
                             event |-> task.event, ok |-> FALSE])
    /\ TickAbort
    /\ UNCHANGED <<dbVars, events, attempts, last_call, cmds_left, nticks>>
    /\ UNCHANGED outsideTracker

Command ==
    \/ \E u \in Users, k \in Products : track_add(u, k)
    \/ \E u \in Users, k \in Products : track_remove(u, k)
    \/ \E u \in Users, k \in Products, t \in Thresholds : buylist_add(u, k, t)
    \/ \E u \in Users, k \in Products : buylist_remove(u, k)
    \/ \E u \in Users, c \in Channels : settings_channel(u, c)
    \/ \E k \in Products, p \in Prices : simulate_command(k, p)

Tick ==
    \/ TickSkip
    \/ \E k \in Products, p \in Prices : TickSimulate(k, p)
    \/ TickNext
    \/ AlertSent
    \/ AlertFailed
    \/ CheckBuy
    \/ PurchaseSent
    \/ PurchaseFailed

Next == Command \/ Tick

\* the polling task with interleaved commands
Spec == Init /\ [][Next]_vars

\* the runs that follow one subscriber: u1 tracks the seed product, has a
\* channel and a threshold; u2 is set up in any of the ways of UserCfgs
WatchSeeds ==
    {SetupUser(SetupUser(EmptyRegistry, "u1",
                         [track |-> <<SeedProduct>>, chan |-> "c1", buy |-> <<1>>]),
               "u2", c2) : c2 \in UserCfgs}

WatchInit ==
    /\ Init
    /\ \E reg \in WatchSeeds :
          /\ user_tracking = reg.ut
          /\ user_buylists = reg.ub
          /\ user_channels = reg.uc

\* commands and loop bodies interleaved, next to a subscriber
SpecWatch == WatchInit /\ [][Next]_vars

\* the polling task alone, over several loop bodies
SpecLoop == LoopInit /\ [][Tick]_vars

\* the registry commands alone, from the freshly constructed database
SpecRegistry == RegInit /\ [][Command]_vars

\* ------------------------------------------------------------------------
\* A user without any entry issues /track add while the polling task runs
\* ------------------------------------------------------------------------
Newcomers == {"u3"}
\* the users set up before the run all track the seed product
TrackingCfgs == {c \in UserCfgs : c.track # <<>>}
JoinSeeds ==
    {SetupUser(SetupUser(EmptyRegistry, "u1", c1), "u2", c2) : c1, c2 \in TrackingCfgs}

JoinInit ==
    /\ PollInit
    /\ \E reg \in JoinSeeds :
          /\ user_tracking = reg.ut
          /\ user_buylists = reg.ub
          /\ user_channels = reg.uc
    /\ cmds_left = MaxPollCmds
    /\ nticks = MaxTicks - MaxCmdTicks

Join == \E u \in Newcomers, k \in Products : track_add(u, k)

SpecJoin == JoinInit /\ [][Join \/ Tick]_vars

\* ------------------------------------------------------------------------
\* Callers of get_tracking_list and get_buylist.  dict.get(user_id, [])
\* returns the stored list object when the user has an entry and a new
\* empty list otherwise; the same holds for the buylist dict
\* ------------------------------------------------------------------------
\* what the object the caller holds contains now
Deref(h, ut, ub) ==
    IF ~h.alias THEN [list |-> h.list, dict |-> h.dict]
    ELSE IF h.kind = "tracking"
         THEN [list |-> TrackList(ut, h.user), dict |-> h.dict]
         ELSE [list |-> h.list, dict |-> ub[h.user]]

\* tracking_list = self.db.get_tracking_list(user_id)
HoldTrackingList(u) ==
    /\ Suspended
    /\ held.kind = "none"
    /\ held' = [kind |-> "tracking", user |-> u,
                alias |-> u \in TrackKeys(user_tracking),
                list |-> get_tracking_list(user_tracking, u),
                dict |-> EmptyDict, wrote |-> FALSE]
    /\ UNCHANGED <<trackerVars, fetchVars, buyVars, restVars>>

\* buylist = self.db.get_buylist(user_id)
HoldBuylist(u) ==
    /\ Suspended
    /\ held.kind = "none"
    /\ held' = [kind |-> "buylist", user |-> u,
                alias |-> u \in DOMAIN user_buylists,
                list |-> <<>>,
                dict |-> get_buylist(user_buylists, u), wrote |-> FALSE]
    /\ UNCHANGED <<trackerVars, fetchVars, buyVars, restVars>>

\* the caller appends a product to the list it was returned
HolderAppend(k) ==
    /\ Suspended
    /\ held.kind = "tracking"
    /\ ~held.wrote
    /\ IF held.alias
       THEN /\ user_tracking' =
                 [user_tracking EXCEPT ![TrackIdx(user_tracking, held.user)].list =
                                           Append(@, k)]
            /\ held' = [held EXCEPT !.wrote = TRUE]
       ELSE /\ user_tracking' = user_tracking
            /\ held' = [held EXCEPT !.list = Append(@, k), !.wrote = TRUE]
    /\ UNCHANGED <<user_buylists, user_channels, stock_status, task, histVars,
                   last_call, cmds_left, nticks>>
    /\ UNCHANGED <<fetchVars, buyVars, restVars>>

\* the caller stores a threshold in the dict it was returned
HolderPut(k, t) ==
    /\ Suspended
    /\ held.kind = "buylist"
    /\ ~held.wrote
    /\ IF held.alias
       THEN /\ user_buylists' = [user_buylists EXCEPT ![held.user] = DictPut(@, k, t)]
            /\ held' = [held EXCEPT !.wrote = TRUE]
       ELSE /\ user_buylists' = user_buylists
            /\ held' = [held EXCEPT !.dict = DictPut(@, k, t), !.wrote = TRUE]
    /\ UNCHANGED <<user_tracking, user_channels, stock_status, task, histVars,
                   last_call, cmds_left, nticks>>
    /\ UNCHANGED <<fetchVars, buyVars, restVars>>

Hold ==
    \/ \E u \in Users : HoldTrackingList(u)
    \/ \E u \in Users : HoldBuylist(u)
    \/ \E k \in Products : HolderAppend(k)
    \/ \E k \in Products, t \in Thresholds : HolderPut(k, t)

\* the registry commands and one caller that keeps what it was returned
SpecSnapshot == RegInit /\ [][Command \/ Hold]_vars

\* ------------------------------------------------------------------------
\* One _make_request call, one action per request attempt
\* ------------------------------------------------------------------------
\* the calls a run may start with: a direct call with any arguments, or the
\* call get_product_details makes for check_stock (GET with the defaults)
Calls ==
    {[NoReq EXCEPT !.adapter = "Base", !.caller = "direct", !.method = m,
                   !.retries = n, !.delay = d, !.pc = "call"] :
        m \in Methods, n \in 0..MaxRetries, d \in Delays}
    \cup {[NoReq EXCEPT !.adapter = "Walmart", !.caller = "direct", !.method = m,
                        !.retries = n, !.delay = DefaultDelay, !.pc = "call"] :
        m \in Methods, n \in 0..MaxRetries}
    \cup {[NoReq EXCEPT !.adapter = a, !.caller = "check_stock", !.method = "GET",
                        !.retries = DefaultRetries, !.delay = DefaultDelay,
                        !.pc = "call"] :
        a \in {"Base", "Walmart"}}

TrackerIdle ==
    /\ user_tracking = <<>>
    /\ user_buylists = EmptyDict
    /\ user_channels = EmptyDict
    /\ stock_status = [p \in Products |->
                          [in_stock |-> FALSE, price |-> NoPrice, url |-> ProductUrl(p)]]
    /\ task = IdleTask
    /\ events = <<>>
    /\ sent = <<>>
    /\ attempts = <<>>
    /\ last_call = NoCall
    /\ cmds_left = 0
    /\ nticks = MaxTicks

FetchInit ==
    /\ TrackerIdle
    /\ session \in {NoSession, OpenSession}
    /\ req \in Calls
    /\ BuyIdle
    /\ NoneHeld
    /\ NotifyIdle
    /\ Running
    /\ NoneChecked

\* the bookkeeping of one request attempt that got the answer resp
Attempted(r, resp) ==
    [r EXCEPT !.issued = @ + 1, !.last = resp,
              !.only429 = @ /\ resp.exc = "none" /\ resp.status = 429]

Return(r, ok, body, exit) ==
    [r EXCEPT !.pc = "done", !.ok = ok, !.body = body, !.exit = exit]

\* finally: await asyncio.sleep(self.request_delay)
Paused(r) == [r EXCEPT !.pauses = @ + 1]

\* await self.initialize(), line 79
BaseBegin ==
    /\ req.pc = "call" /\ req.adapter = "Base"
    /\ session' = initialize(session)
    /\ req' = [req EXCEPT !.pc = "attempt"]
    /\ UNCHANGED outsideFetch

\* lines 88-89 and 106-107: the body is returned
BaseReturnBody(resp, page) ==
    /\ req.pc = "attempt" /\ req.adapter = "Base" /\ req.attempt < req.retries
    /\ BaseClass(req.method, resp) = "body"
    /\ req' = Paused(Return(Attempted(req, resp), TRUE, page, "body"))
    /\ UNCHANGED <<outsideFetch, session>>

\* lines 90-92 (404 on GET) and 101-103, 112-114 (any other status)
BaseReturnNone(resp) ==
    /\ req.pc = "attempt" /\ req.adapter = "Base" /\ req.attempt < req.retries
    /\ BaseClass(req.method, resp) \in {"not_found", "other"}
    /\ req' = Paused(Return(Attempted(req, resp), FALSE, NoPage,
                            BaseClass(req.method, resp)))
    /\ UNCHANGED <<outsideFetch, session>>

\* lines 93-100 and 108-111: sleep wait_time, then the next attempt
BaseBackoff(resp, jitter) ==
    /\ req.pc = "attempt" /\ req.adapter = "Base" /\ req.attempt < req.retries
    /\ \/ BaseClass(req.method, resp) = "rate_limited" /\ jitter \in Jitter429
       \/ BaseClass(req.method, resp) = "server_error" /\ jitter \in Jitter5xx
    /\ req' = Paused([Attempted(req, resp) EXCEPT
                        !.waits = Append(@, backoff_wait(req.delay, req.attempt, jitter)),
                        !.attempt = @ + 1])
    /\ UNCHANGED <<outsideFetch, session>>

\* lines 115-123: sleep delay, then the next attempt
BaseException(resp) ==
    /\ req.pc = "attempt" /\ req.adapter = "Base" /\ req.attempt < req.retries
    /\ BaseClass(req.method, resp) = "exception"
    /\ req' = Paused([Attempted(req, resp) EXCEPT
                        !.waits = Append(@, req.delay), !.attempt = @ + 1])
    /\ UNCHANGED <<outsideFetch, session>>

\* a method that is neither GET nor POST: the try body does nothing
BaseNoRequest ==
    /\ req.pc = "attempt" /\ req.adapter = "Base" /\ req.attempt < req.retries
    /\ req.method \notin {"GET", "POST"}
    /\ req' = Paused([req EXCEPT !.attempt = @ + 1])
    /\ UNCHANGED <<outsideFetch, session>>

\* lines 127-128: the for loop has run out
BaseExhausted ==
    /\ req.pc = "attempt" /\ req.adapter = "Base" /\ req.attempt >= req.retries
    /\ req' = Return(req, FALSE, NoPage, "exhausted")
    /\ UNCHANGED <<outsideFetch, session>>

\* WalmartRetailer._make_request makes no initialize() call
WalmartBegin ==
    /\ req.pc = "call" /\ req.adapter = "Walmart"
    /\ req' = [req EXCEPT !.pc = "attempt"]
    /\ UNCHANGED <<outsideFetch, session>>

\* self.session is None: AttributeError, caught by line 54
WalmartNoSession ==
    /\ req.pc = "attempt" /\ req.adapter = "Walmart" /\ req.attempt < req.retries
    /\ ~session.held
    /\ req' = Return(req, FALSE, NoPage, "unexpected")
    /\ UNCHANGED <<outsideFetch, session>>

\* lines 45-47
WalmartReturnBody(resp, page) ==
    /\ req.pc = "attempt" /\ req.adapter = "Walmart" /\ req.attempt < req.retries
    /\ session.held
    /\ WalmartClass(resp) = "body"
    /\ req' = Return(Attempted(req, resp), TRUE, page, "body")
    /\ UNCHANGED <<outsideFetch, session>>

\* lines 48-53: aiohttp.ClientError, raised by the session or by
\* raise_for_status
WalmartClientError(resp) ==
    /\ req.pc = "attempt" /\ req.adapter = "Walmart" /\ req.attempt < req.retries
    /\ session.held
    /\ WalmartClass(resp) = "client_error"
    /\ IF req.attempt < req.retries - 1
       THEN req' = [Attempted(req, resp) EXCEPT
                       !.waits = Append(@, Pow2(req.attempt) * TimeUnit),
                       !.attempt = @ + 1]
       ELSE req' = Return(Attempted(req, resp), FALSE, NoPage, "exhausted")
    /\ UNCHANGED <<outsideFetch, session>>

\* lines 54-56
WalmartUnexpected(resp) ==
    /\ req.pc = "attempt" /\ req.adapter = "Walmart" /\ req.attempt < req.retries
    /\ session.held
    /\ WalmartClass(resp) = "unexpected"
    /\ req' = Return(Attempted(req, resp), FALSE, NoPage, "unexpected")
    /\ UNCHANGED <<outsideFetch, session>>

\* line 57: range(retries) is empty
WalmartNoAttempt ==
    /\ req.pc = "attempt" /\ req.adapter = "Walmart" /\ req.attempt >= req.retries
    /\ req' = Return(req, FALSE, NoPage, "exhausted")
    /\ UNCHANGED <<outsideFetch, session>>

\* what the caller of _make_request gets: the body, or None
result(r) == IF r.ok THEN [none |-> FALSE, body |-> r.body]
             ELSE [none |-> TRUE, body |-> NoPage]

\* a stock check that probes availability by putting the product in the cart
CheckStockReturn_Probe ==
    /\ req.pc = "done" /\ req.caller = "check_stock"
    /\ req' = [req EXCEPT !.pc = "reported",
                 !.stock = adapter_check_stock(get_product_details(req.ok, req.body))]
    /\ cart_id' = IF req.ok THEN "cart-1" ELSE cart_id
    /\ UNCHANGED <<trackerVars, buys, csrf_token, refVars, restVars, session>>

\* get_product_details and check_stock hand the fetch's result on
CheckStockReturn ==
    /\ req.pc = "done" /\ req.caller = "check_stock"
    /\ req' = [req EXCEPT !.pc = "reported",
                 !.stock = adapter_check_stock(get_product_details(req.ok, req.body))]
    /\ UNCHANGED <<outsideFetch, session>>

Fetch ==
    \/ BaseBegin
    \/ \E resp \in Responses, page \in Pages : BaseReturnBody(resp, page)
    \/ \E resp \in Responses : BaseReturnNone(resp)
    \/ \E resp \in Responses, jitter \in Jitter429 \cup Jitter5xx : BaseBackoff(resp, jitter)
    \/ \E resp \in Responses : BaseException(resp)
    \/ BaseNoRequest
    \/ BaseExhausted
    \/ WalmartBegin
    \/ WalmartNoSession
    \/ \E resp \in Responses, page \in Pages : WalmartReturnBody(resp, page)
    \/ \E resp \in Responses : WalmartClientError(resp)
    \/ \E resp \in Responses : WalmartUnexpected(resp)
    \/ WalmartNoAttempt
    \/ CheckStockReturn

\* one _make_request call of an adapter, by itself or behind check_stock
SpecFetch == FetchInit /\ [][Fetch]_vars

\* ------------------------------------------------------------------------
\* Consecutive check_stock calls, of an adapter or of the database
\* ------------------------------------------------------------------------
\* RetailerDatabase.check_stock calls, for the known keys and an unknown one
DatabaseCalls ==
    {[NoReq EXCEPT !.adapter = "Database", !.caller = "check_stock", !.product = k,
                   !.pc = "call"] : k \in Products \cup {NoProduct}}

\* stock_status.get(product, (False, None, None))
DatabaseCheckStock ==
    /\ req.pc = "call" /\ req.adapter = "Database"
    /\ req' = [req EXCEPT !.pc = "reported",
                 !.stock = check_stock(stock_status, req.product)]
    /\ UNCHANGED <<outsideFetch, session>>

\* the caller calls check_stock again, for the same product (as /buy does
\* and then Target's add_to_cart, or the next poll)
CheckStockAgain ==
    /\ req.pc = "reported"
    /\ checked.n < MaxChecks - 1
    /\ checked' = [n |-> checked.n + 1, last |-> req.last, body |-> req.body,
                   stock |-> req.stock]
    /\ req' = [NoReq EXCEPT !.adapter = req.adapter, !.caller = req.caller,
                            !.product = req.product, !.method = req.method,
                            !.retries = req.retries, !.delay = req.delay, !.pc = "call"]
    /\ UNCHANGED <<trackerVars, buyVars, refVars, notifVars, lifeVars, session>>

\* one adapter call as in FetchInit, or a database call on any stock table
CheckInit ==
    \/ FetchInit
    \/ /\ user_tracking = <<>>
       /\ user_buylists = EmptyDict
       /\ user_channels = EmptyDict
       /\ stock_status \in StockTables
       /\ task = IdleTask
       /\ events = <<>>
       /\ sent = <<>>
       /\ attempts = <<>>
       /\ last_call = NoCall
       /\ cmds_left = 0
       /\ nticks = MaxTicks
       /\ session = NoSession
       /\ req \in DatabaseCalls
       /\ BuyIdle
       /\ NoneHeld
       /\ NotifyIdle
       /\ Running
       /\ NoneChecked

SpecCheck == CheckInit /\ [][Fetch \/ DatabaseCheckStock \/ CheckStockAgain]_vars

\* ------------------------------------------------------------------------
\* One adapter's session over initialize, close and _make_request calls,
\* taken one after the other
\* ------------------------------------------------------------------------
\* no _make_request call of the adapter is under way
BetweenCalls == req.pc \in {"call", "done", "reported"}

\* cog_load: await retailer.initialize()
Initialize ==
    /\ BetweenCalls
    /\ session' = initialize(session)
    /\ UNCHANGED <<outsideFetch, req>>

\* cog_unload: await retailer.close()
Close ==
    /\ BetweenCalls
    /\ session' = close(session)
    /\ UNCHANGED <<outsideFetch, req>>

\* the adapter's next _make_request call, with the same arguments (as
\* add_to_cart follows the token request with the cart request)
RequestAgain ==
    /\ req.pc = "done" /\ req.caller = "direct"
    /\ checked.n < MaxChecks - 1
    /\ checked' = [n |-> checked.n + 1, last |-> req.last, body |-> req.body,
                   stock |-> req.stock]
    /\ req' = [NoReq EXCEPT !.adapter = req.adapter, !.caller = req.caller,
                            !.method = req.method, !.retries = req.retries,
                            !.delay = req.delay, !.pc = "call"]
    /\ UNCHANGED <<trackerVars, buyVars, refVars, notifVars, lifeVars, session>>

\* a freshly constructed adapter and its first call
SessionInit ==
    /\ TrackerIdle
    /\ session = NoSession
    /\ req \in Calls
    /\ BuyIdle
    /\ NoneHeld
    /\ NotifyIdle
    /\ Running
    /\ NoneChecked

SpecSession ==
    SessionInit /\ [][Fetch \/ Initialize \/ Close \/ CheckStockAgain \/ RequestAgain]_vars

\* ------------------------------------------------------------------------
\* RetailerCog.buy_command: one coroutine per invocation, suspended at each
\* await (defer, check_stock, respond, add_to_cart, followup.send)
\* ------------------------------------------------------------------------
\* the adapters load_retailers registers, by name.lower()
Retailers == {"walmart", "target"}
\* the retailer names a user may type
RetailerNames == Retailers \cup {"amazon"}
ProductIds == {"ETB"}
RetailerTitle(retailer) == IF retailer = "walmart" THEN "Walmart" ELSE "Target"
\* the key under which the tracker files the product of a retailer
product_key(retailer, product_id) == RetailerTitle(retailer) \o ":" \o product_id

get_retailer(name) == IF name \in Retailers THEN name ELSE "None"

\* what add_to_cart may get back: no usable response, or a parsed one
\* csrf: whether the start page yields a token, should one be fetched
CartResponses ==
    {[csrf |-> t, parsed |-> FALSE, id |-> NoCart, items |-> FALSE] : t \in BOOLEAN}
    \cup {[csrf |-> TRUE, parsed |-> TRUE, id |-> c, items |-> b] :
             c \in {NoCart, "cart-1"}, b \in BOOLEAN}

\* WalmartRetailer._get_csrf_token: the stored token, else the one of the
\* start page, which is then stored
get_csrf_token(tok, resp) ==
    IF tok # NoToken THEN tok ELSE IF resp.csrf THEN "token" ELSE NoToken

\* add_to_cart of the adapter: Walmart fetches the CSRF token if it has
\* none and fails without it, else stores the cart id of a parsed response
\* and reports whether it lists items; Target reports whether its
\* own stock check said in stock (carried in items) and stores nothing
add_to_cart(retailer, cid, tok, resp) ==
    IF retailer = "walmart"
    THEN IF get_csrf_token(tok, resp) = NoToken
         THEN [cart_id |-> cid, csrf_token |-> NoToken, ret |-> FALSE]
         ELSE [cart_id |-> IF resp.parsed THEN resp.id ELSE cid,
               csrf_token |-> get_csrf_token(tok, resp),
               ret |-> resp.parsed /\ resp.items]
    ELSE [cart_id |-> cid, csrf_token |-> tok, ret |-> resp.items]

checkout(retailer, cid) == IF retailer = "walmart" THEN cid # NoCart ELSE TRUE

BuyStep(i, pc, outcome) == [buys EXCEPT ![i].pc = pc, ![i].outcome = outcome]
\* history: the adapter calls an invocation has made and what they returned
AdapterCall(op, ret) == [op |-> op, ret |-> ret]
Called(bs, i, cs) == [bs EXCEPT ![i].calls = @ \o cs]

buy_command(i, u, retailer, product_id) ==
    /\ Suspended
    /\ buys[i].pc = "none"
    /\ i > 1 => buys[i - 1].pc # "none"
    /\ buys' = [buys EXCEPT ![i] = [pc |-> "defer", user |-> u, retailer |-> retailer,
                                    product_id |-> product_id, outcome |-> "none",
                                    calls |-> <<>>]]
    /\ UNCHANGED <<outsideBuy, cart_id, csrf_token>>

\* defer returned: look the retailer up, start check_stock
BuyDeferred(i) ==
    /\ Suspended
    /\ buys[i].pc = "defer"
    /\ buys' = IF get_retailer(buys[i].retailer) = "None"
               THEN BuyStep(i, "respond", "not_found")
               ELSE BuyStep(i, "check_stock", "none")
    /\ UNCHANGED <<outsideBuy, cart_id, csrf_token>>

\* check_stock returned
BuyStockChecked(i, in_stock) ==
    /\ Suspended
    /\ buys[i].pc = "check_stock"
    /\ buys' = IF ~in_stock
               THEN BuyStep(i, "respond", "out_of_stock")
               ELSE BuyStep(i, "attempting", "none")
    /\ UNCHANGED <<outsideBuy, cart_id, csrf_token>>

\* the respond before an early return came back
BuyResponded(i) ==
    /\ Suspended
    /\ buys[i].pc = "respond"
    /\ buys' = BuyStep(i, "done", buys[i].outcome)
    /\ UNCHANGED <<outsideBuy, cart_id, csrf_token>>

\* "Attempting to purchase" was delivered: start add_to_cart
BuyAttempting(i) ==
    /\ Suspended
    /\ buys[i].pc = "attempting"
    /\ buys' = BuyStep(i, "add_to_cart", "none")
    /\ UNCHANGED <<outsideBuy, cart_id, csrf_token>>

\* the respond raised: the except branch reports the error
BuyRespondRaised(i) ==
    /\ Suspended
    /\ buys[i].pc = "attempting"
    /\ buys' = BuyStep(i, "followup", "error")
    /\ UNCHANGED <<outsideBuy, cart_id, csrf_token>>

\* checkout is called although add_to_cart returned False (the early
\* return is missing)
BuyCarted_Stale(i, resp) ==
    /\ Suspended
    /\ buys[i].pc = "add_to_cart"
    /\ LET r == buys[i].retailer
           cart == add_to_cart(r, cart_id, csrf_token, resp)
       IN /\ cart_id' = cart.cart_id
          /\ csrf_token' = cart.csrf_token
          /\ buys' = IF checkout(r, cart.cart_id)
                     THEN Called(BuyStep(i, "followup", "success"), i,
                                 <<AdapterCall("add_to_cart", cart.ret),
                                   AdapterCall("checkout", TRUE)>>)
                     ELSE Called(BuyStep(i, "followup", "checkout_failed"), i,
                                 <<AdapterCall("add_to_cart", cart.ret),
                                   AdapterCall("checkout", FALSE)>>)
    /\ UNCHANGED outsideBuy

\* add_to_cart returned; checkout has no await and runs in the same step
BuyCarted(i, resp) ==
    /\ Suspended
    /\ buys[i].pc = "add_to_cart"
    /\ LET r == buys[i].retailer
           cart == add_to_cart(r, cart_id, csrf_token, resp)
       IN /\ cart_id' = cart.cart_id
          /\ csrf_token' = cart.csrf_token
          /\ buys' = IF ~cart.ret
                     THEN Called(BuyStep(i, "followup", "cart_failed"), i,
                                 <<AdapterCall("add_to_cart", FALSE)>>)
                     ELSE IF checkout(r, cart.cart_id)
                          THEN Called(BuyStep(i, "followup", "success"), i,
                                      <<AdapterCall("add_to_cart", TRUE),
                                        AdapterCall("checkout", TRUE)>>)
                          ELSE Called(BuyStep(i, "followup", "checkout_failed"), i,
                                      <<AdapterCall("add_to_cart", TRUE),
                                        AdapterCall("checkout", FALSE)>>)
    /\ UNCHANGED outsideBuy

BuyFollowedUp(i) ==
    /\ Suspended
    /\ buys[i].pc = "followup"
    /\ buys' = BuyStep(i, "done", buys[i].outcome)
    /\ UNCHANGED <<outsideBuy, cart_id, csrf_token>>

Buy ==
    \/ \E i \in 1..MaxBuys, u \in Users, r \in RetailerNames, k \in ProductIds :
          buy_command(i, u, r, k)
    \/ \E i \in 1..MaxBuys : BuyDeferred(i)
    \/ \E i \in 1..MaxBuys, in_stock \in BOOLEAN : BuyStockChecked(i, in_stock)
    \/ \E i \in 1..MaxBuys : BuyResponded(i)
    \/ \E i \in 1..MaxBuys : BuyAttempting(i)
    \/ \E i \in 1..MaxBuys : BuyRespondRaised(i)
    \/ \E i \in 1..MaxBuys, resp \in CartResponses : BuyCarted(i, resp)
    \/ \E i \in 1..MaxBuys : BuyFollowedUp(i)

\* the registries of the runs with /buy: u1 tracks the seed product, has a
\* channel and a threshold; u2 has set up nothing
BuySeeds ==
    {SetupUser(EmptyRegistry, "u1",
               [track |-> <<SeedProduct>>, chan |-> "c1", buy |-> <<1>>])}

BuyInit ==
    /\ PollInit
    /\ \E reg \in BuySeeds :
          /\ user_tracking = reg.ut
          /\ user_buylists = reg.ub
          /\ user_channels = reg.uc
    /\ cmds_left = 0
    /\ nticks = MaxTicks - MaxCmdTicks

\* /buy invocations interleaved with one another and with the polling task
SpecBuy == BuyInit /\ [][Buy \/ Tick]_vars

\* the /buy invocations of one user for the registered retailers, sharing
\* the adapters
CartBuy ==
    \/ \E i \in 1..MaxBuys, r \in Retailers, k \in ProductIds :
          buy_command(i, "u1", r, k)
    \/ \E i \in 1..MaxBuys : BuyDeferred(i)
    \/ \E i \in 1..MaxBuys, in_stock \in BOOLEAN : BuyStockChecked(i, in_stock)
    \/ \E i \in 1..MaxBuys : BuyResponded(i)
    \/ \E i \in 1..MaxBuys : BuyAttempting(i)
    \/ \E i \in 1..MaxBuys : BuyRespondRaised(i)
    \/ \E i \in 1..MaxBuys, resp \in CartResponses : BuyCarted(i, resp)
    \/ \E i \in 1..MaxBuys : BuyFollowedUp(i)

\* RetailerCog.__init__: no invocation yet, no cart, no token
CartInit ==
    /\ TrackerIdle
    /\ FetchIdle
    /\ BuyIdle
    /\ NoneHeld
    /\ NotifyIdle
    /\ Running
    /\ NoneChecked

SpecCart == CartInit /\ [][CartBuy]_vars

\* ------------------------------------------------------------------------
\* RetailerCog.notification_queue and its consumer, _process_notifications
\* ------------------------------------------------------------------------
Producers == {"a", "b"}
\* how user.send ends when it raises: DiscordServerError, Forbidden, or any
\* other exception
SendFailures == {"server_error", "forbidden", "error"}

\* the messages put on the queue so far
Enqueued ==
    Len(deliveries) + Len(notification_queue) + (IF consumer.msg = NoMsg THEN 0 ELSE 1)

\* a bounded queue: put waits while the queue holds maxsize items
Enqueue_Bounded(by, user_id) ==
    /\ Enqueued < MaxMsgs
    /\ Len(notification_queue) < 1
    /\ notification_queue' = Append(notification_queue,
           [id |-> Enqueued + 1, user |-> user_id, by |-> by, during |-> consumer.pc])
    /\ UNCHANGED <<consumer, deliveries, bot_closed, outsideNotify>>

\* a put on notification_queue: asyncio.Queue() has no maxsize, so the put
\* completes at once whatever the consumer is doing
Enqueue(by, user_id) ==
    /\ Enqueued < MaxMsgs
    /\ notification_queue' = Append(notification_queue,
           [id |-> Enqueued + 1, user |-> user_id, by |-> by, during |-> consumer.pc])
    /\ UNCHANGED <<consumer, deliveries, bot_closed, outsideNotify>>

\* the loop test, `while not self.bot.is_closed()`
LoopTest == IF bot_closed THEN "stopped" ELSE "get"

\* bot.wait_until_ready() returns
NotifyReady ==
    /\ consumer.pc = "start"
    /\ consumer' = [consumer EXCEPT !.pc = LoopTest]
    /\ UNCHANGED <<notification_queue, deliveries, bot_closed, outsideNotify>>

\* the newest message is taken first
NotifyGet_Lifo(found) ==
    /\ consumer.pc = "get"
    /\ notification_queue # <<>>
    /\ LET m == notification_queue[Len(notification_queue)]
       IN /\ notification_queue' = SubSeq(notification_queue, 1, Len(notification_queue) - 1)
          /\ IF found
                THEN /\ consumer' = [consumer EXCEPT !.pc = "send", !.msg = m]
                     /\ UNCHANGED deliveries
                ELSE /\ consumer' = [consumer EXCEPT !.pc = "sleep"]
                     /\ deliveries' = Append(deliveries,
                            [id |-> m.id, user |-> m.user, outcome |-> "not_found"])
    /\ UNCHANGED <<bot_closed, outsideNotify>>

\* an unknown recipient is skipped without the wait
NotifyGet_Continue(found) ==
    /\ consumer.pc = "get"
    /\ notification_queue # <<>>
    /\ LET m == Head(notification_queue)
       IN /\ notification_queue' = Tail(notification_queue)
          /\ IF found
                THEN /\ consumer' = [consumer EXCEPT !.pc = "send", !.msg = m]
                     /\ UNCHANGED deliveries
                ELSE /\ consumer' = [consumer EXCEPT !.pc = LoopTest]
                     /\ deliveries' = Append(deliveries,
                            [id |-> m.id, user |-> m.user, outcome |-> "not_found"])
    /\ UNCHANGED <<bot_closed, outsideNotify>>

\* `await self.notification_queue.get()` returns the oldest message, then
\* bot.get_user(user_id): found, the consumer goes on to user.send; None, it
\* logs a warning, calls task_done() and goes to its sleep
NotifyGet(found) ==
    /\ consumer.pc = "get"
    /\ notification_queue # <<>>
    /\ LET m == Head(notification_queue)
       IN /\ notification_queue' = Tail(notification_queue)
          /\ IF found
                THEN /\ consumer' = [consumer EXCEPT !.pc = "send", !.msg = m]
                     /\ UNCHANGED deliveries
                ELSE /\ consumer' = [consumer EXCEPT !.pc = "sleep"]
                     /\ deliveries' = Append(deliveries,
                            [id |-> m.id, user |-> m.user, outcome |-> "not_found"])
    /\ UNCHANGED <<bot_closed, outsideNotify>>

\* user.send returns: logged, task_done(), then the sleep
NotifySent ==
    /\ consumer.pc = "send"
    /\ deliveries' = Append(deliveries,
           [id |-> consumer.msg.id, user |-> consumer.msg.user, outcome |-> "delivered"])
    /\ consumer' = [consumer EXCEPT !.pc = "sleep", !.msg = NoMsg]
    /\ UNCHANGED <<notification_queue, bot_closed, outsideNotify>>

\* the failed message goes back on the queue
NotifyFailed_Requeue(failure) ==
    /\ consumer.pc = "send"
    /\ deliveries' = Append(deliveries,
           [id |-> consumer.msg.id, user |-> consumer.msg.user, outcome |-> failure])
    /\ notification_queue' = Append(notification_queue, consumer.msg)
    /\ consumer' = [consumer EXCEPT !.pc = "sleep", !.msg = NoMsg]
    /\ UNCHANGED <<bot_closed, outsideNotify>>

\* user.send raises: each except branch logs, then task_done() and the sleep
NotifyFailed(failure) ==
    /\ consumer.pc = "send"
    /\ deliveries' = Append(deliveries,
           [id |-> consumer.msg.id, user |-> consumer.msg.user, outcome |-> failure])
    /\ consumer' = [consumer EXCEPT !.pc = "sleep", !.msg = NoMsg]
    /\ UNCHANGED <<notification_queue, bot_closed, outsideNotify>>

\* `await asyncio.sleep(1)` returns, then the loop test
NotifySlept ==
    /\ consumer.pc = "sleep"
    /\ consumer' = [consumer EXCEPT !.pc = LoopTest, !.naps = @ + 1]
    /\ UNCHANGED <<notification_queue, deliveries, bot_closed, outsideNotify>>

\* the bot is closed
BotClose ==
    /\ bot_closed = FALSE
    /\ bot_closed' = TRUE
    /\ UNCHANGED <<notification_queue, consumer, deliveries, outsideNotify>>

Notify ==
    \/ \E by \in Producers, u \in Users : Enqueue(by, u)
    \/ NotifyReady
    \/ \E found \in BOOLEAN : NotifyGet(found)
    \/ NotifySent
    \/ \E failure \in SendFailures : NotifyFailed(failure)
    \/ NotifySlept
    \/ BotClose

NotifyInit ==
    /\ TrackerIdle
    /\ FetchIdle
    /\ BuyIdle
    /\ NoneHeld
    /\ NotifyIdle
    /\ Running
    /\ NoneChecked

\* producers and the consumer of the notification queue
SpecNotify == NotifyInit /\ [][Notify]_vars

\* ------------------------------------------------------------------------
\* PokemonTracker.cog_unload
\* ------------------------------------------------------------------------
\* check_stock_task.cancel(): the loop's task is cancelled at once. A body
\* suspended in a send is ended there by the CancelledError, which its
\* `except Exception` does not catch; the message of that send has gone out
\* or not (went_out). No further body starts.
cog_unload(went_out) ==
    /\ Running
    /\ Suspended
    /\ cancelled' = TRUE
    /\ IF task.pc = "idle"
          THEN /\ went_out = FALSE
               /\ UNCHANGED <<task, sent>>
          ELSE /\ task' = IdleTask
               /\ sent' = IF went_out
                          THEN Append(sent,
                                 [user |-> task.user_id,
                                  kind |-> IF task.pc = "alert_send" THEN "alert"
                                           ELSE "purchase",
                                  event |-> task.event, ok |-> TRUE])
                          ELSE sent
    /\ UNCHANGED <<dbVars, events, attempts, last_call, cmds_left, nticks>>
    /\ UNCHANGED <<fetchVars, buyVars, refVars, notifVars, probeVars>>

Unload == \E went_out \in BOOLEAN : cog_unload(went_out)

\* the polling task, unloaded at any of its suspension points
SpecUnload == LoopInit /\ [][Tick \/ Unload]_vars

\* ------------------------------------------------------------------------
\* Properties of the polling task and the registry
\* ------------------------------------------------------------------------
LastOf(q) == q[Len(q)]
TaskDone == task.pc = "idle"
UsersTracking(k) == {u \in Users : InList(k, get_tracking_list(user_tracking, u))}
SendsTo(u, e) == SelectSeq(sent, LAMBDA m : m.user = u /\ m.event = e)
AttemptsOf(u, k) == {i \in 1..Len(attempts) : attempts[i].user = u /\ attempts[i].product = k}

\* C2: a loop body that changes no product's stored (in_stock, price) sends
\* no alert and no purchase message and enters no purchase block; an event
\* is produced only by a step that changes the product's stored entry, and
\* every send and purchase block belongs to an event of the running body.
C2_EventOnlyOnChange ==
    [][ /\ events' # events =>
             \E k \in Products :
                /\ Entry(stock_status'[k]) # Entry(stock_status[k])
                /\ events' = Append(events,
                       [product |-> k, previous |-> Entry(stock_status[k]),
                        current |-> Entry(stock_status'[k]), tick |-> nticks'])
        /\ (stock_status' = stock_status /\ task.pc = "idle") =>
              (events' = events /\ sent' = sent /\ attempts' = attempts /\ task'.pc = "idle")
        /\ sent' # sent =>
              /\ Len(sent') = Len(sent) + 1
              /\ LastOf(sent').event = Len(events)
              /\ events[Len(events)].tick = nticks
              /\ events[Len(events)].previous # events[Len(events)].current
        /\ attempts' # attempts =>
              /\ Len(attempts') = Len(attempts) + 1
              /\ LastOf(attempts').event = Len(events)
              /\ events[Len(events)].tick = nticks
      ]_vars

\* a loop body that changed nothing has ended, although a user with a
\* resolvable channel tracks a product that is in stock under the threshold
C2_Witness ==
    /\ TaskDone
    /\ nticks = MaxTicks
    /\ events = <<>> /\ sent = <<>> /\ attempts = <<>>
    /\ \E u \in Users :
          /\ u \in UsersTracking(SeedProduct)
          /\ get_channel(get_notification_channel(user_channels, u))
          /\ Qualifies(get_buylist(user_buylists, u), SeedProduct,
                       stock_status[SeedProduct].in_stock,
                       stock_status[SeedProduct].price)

\* C3: every step that takes a product from out of stock to in stock at
\* price P, whether made by the loop body or by the /simulate command,
\* produces exactly one event for it with previous.in_stock = FALSE,
\* current.in_stock = TRUE and current.price = P.
C3_EveryTransitionOneEvent ==
    [][ \A k \in Products :
          (~stock_status[k].in_stock /\ stock_status'[k].in_stock) =>
              /\ Len(events') = Len(events) + 1
              /\ LastOf(events').product = k
              /\ ~LastOf(events').previous.in_stock
              /\ LastOf(events').current.in_stock
              /\ LastOf(events').current.price = stock_status'[k].price
      ]_vars

\* C4: once the loop body that took K from out of stock to in stock at P has
\* ended, every user who tracks K through a resolvable channel, and to whom
\* no send failed, was sent exactly one alert; with a threshold T >= P on K
\* the user was sent exactly two messages, the alert and then the purchase
\* result.  (The registry is constant in SpecLoop.)
C4_AlertThenPurchase ==
    \A e \in 1..Len(events) :
      \A u \in UsersTracking(events[e].product) :
        LET k == events[e].product
            msgs == SendsTo(u, e)
            want == IF Qualifies(get_buylist(user_buylists, u), k, TRUE,
                                 events[e].current.price)
                    THEN <<"alert", "purchase">> ELSE <<"alert">>
        IN ( /\ (task.event # e \/ TaskDone)
             /\ ~events[e].previous.in_stock /\ events[e].current.in_stock
             /\ get_channel(get_notification_channel(user_channels, u))
             /\ \A i \in 1..Len(msgs) : msgs[i].ok )
           => [i \in 1..Len(msgs) |-> msgs[i].kind] = want

\* C5: no tracking list ever holds a product twice; track_add for a product
\* the user already tracks reports False and leaves the registry unchanged.
NoDuplicates ==
    \A i \in 1..Len(user_tracking) :
       \A k \in Products : Count(k, user_tracking[i].list) <= 1

C5_TrackIdempotent ==
    /\ []NoDuplicates
    /\ [][ \A u \in Users, k \in Products :
             (track_add(u, k) /\ InList(k, get_tracking_list(user_tracking, u))) =>
                 /\ last_call'.ret = FALSE
                 /\ user_tracking' = user_tracking
                 /\ Count(k, get_tracking_list(user_tracking', u)) = 1
         ]_vars

\* track_add was called for a product already tracked, and reported False
C5_Witness ==
    /\ last_call.op = "track_add"
    /\ last_call.ret = FALSE
    /\ Count(last_call.product, get_tracking_list(user_tracking, last_call.user)) = 1

\* C10: every purchase block the task enters for (u,k) belongs to an event
\* in which k went from out of stock to in stock, made by the loop body that
\* enters it, and no two purchase blocks for (u,k) share an event: a body
\* that finds k's entry as the last event left it enters none.
C10_OncePerCrossing ==
    \A i \in 1..Len(attempts) :
       LET a == attempts[i]
           e == events[a.event]
       IN /\ e.product = a.product
          /\ ~e.previous.in_stock
          /\ e.current.in_stock
          /\ \A j \in AttemptsOf(a.user, a.product) : j # i => attempts[j].event # a.event

\* a purchase block was entered for (u,k), a later loop body has run to its
\* end with k's entry unchanged, and (u,k) still has the one purchase block
C10_Witness ==
    \E i \in 1..Len(attempts) :
       LET a == attempts[i]
           e == events[a.event]
       IN /\ TaskDone
          /\ nticks > e.tick
          /\ Entry(stock_status[a.product]) = e.current
          /\ AttemptsOf(a.user, a.product) = {i}

\* ------------------------------------------------------------------------
\* Properties of the request executor
\* ------------------------------------------------------------------------
Returned == req.pc \in {"done", "reported"}
NonDecreasing(w) == \A i \in 1..(Len(w) - 1) : w[i + 1] >= w[i]

\* C6: a GET or POST call with retry budget N whose every response was 429
\* returns only after exactly N request attempts, by the return that follows
\* the exhausted loop.
C6_ExhaustsBudgetOn429 ==
    ( /\ Returned
      /\ req.method \in {"GET", "POST"}
      /\ req.only429
      /\ (req.issued >= 1 \/ req.retries = 0) )
    => (req.issued = req.retries /\ req.exit = "exhausted" /\ ~req.ok)

\* C7 as stated: for every base delay, the backoff waits of a
\* BaseRetailer._make_request call answered by 429 alone never decrease.
C7_BackoffMonotone ==
    (req.adapter = "Base" /\ req.only429) => NonDecreasing(req.waits)

\* C7 as amended: the same for every base delay of at least one second
\* (the default delay=1 included) and every jitter of [0, 1] second.
C7_BackoffMonotoneFromOneSecond ==
    (req.adapter = "Base" /\ req.only429 /\ req.delay >= TimeUnit)
       => NonDecreasing(req.waits)

\* two 429 responses to a call with delay = 1 s: the first wait drew the
\* largest jitter and the second the smallest, and the waits are equal
C7_Witness ==
    /\ req.adapter = "Base" /\ req.only429 /\ req.delay = TimeUnit
    /\ Len(req.waits) >= 2
    /\ req.waits[1] = req.delay + TimeUnit
    /\ req.waits[2] = req.waits[1]

\* C8: in every adapter a 404 response ends the call as a failure, and the
\* attempt it answered is followed by no backoff wait; the stock table and
\* the events are left as they were.
C8_NotFoundEndsFetch ==
    (req.last.exc = "none" /\ req.last.status = 404) =>
        /\ Returned
        /\ ~req.ok
        /\ Len(req.waits) < req.issued
        /\ events = <<>>
        /\ \A p \in Products : ~stock_status[p].in_stock

\* C9: the result check_stock hands on after a failed fetch differs from
\* every result it hands on for a page that says out of stock.
C9_UnavailableDistinct ==
    (req.pc = "reported" /\ ~req.ok) =>
        \A page \in Pages :
            ~page.in_stock =>
                adapter_check_stock(get_product_details(TRUE, page)) # req.stock

\* ------------------------------------------------------------------------
\* Properties of the purchase paths
\* ------------------------------------------------------------------------
\* the /buy invocations of u for k between "Attempting to purchase" and
\* the return of add_to_cart and checkout
InFlightBuys(u, k) ==
    {i \in 1..MaxBuys :
        /\ buys[i].pc \in {"attempting", "add_to_cart"}
        /\ buys[i].user = u
        /\ product_key(buys[i].retailer, buys[i].product_id) = k}
\* the polling task is inside its purchase block for (u, k)
TickInFlight(u, k) ==
    IF task.pc = "purchase_send" /\ task.user_id = u /\ task.product = k THEN 1 ELSE 0

\* C1: for every user and product key at most one purchase attempt, started
\* by the polling task or by /buy, is unresolved at any time.
C1_OneAttemptInFlight ==
    \A u \in Users, k \in Products :
        Cardinality(InFlightBuys(u, k)) + TickInFlight(u, k) <= 1

\* a checkout follows a successful add_to_cart at once, and no step is
\* made twice
WellOrdered(cs) ==
    /\ \A j \in 1..Len(cs) :
          cs[j].op = "checkout" => (j > 1 /\ cs[j - 1] = AdapterCall("add_to_cart", TRUE))
    /\ \A op \in {"add_to_cart", "checkout"} :
          Cardinality({j \in 1..Len(cs) : cs[j].op = op}) <= 1
Purchased(cs) == \E j \in 1..Len(cs) : cs[j] = AdapterCall("checkout", TRUE)

OutcomeMessages(a) ==
    {m \in 1..Len(sent) :
        sent[m].kind = "purchase" /\ sent[m].user = a.user /\ sent[m].event = a.event}

\* C12: once the loop body has ended, every purchase block it entered has
\* sent exactly one purchase result to its user.
C12_AttemptHasOutcome ==
    TaskDone => \A j \in 1..Len(attempts) : Cardinality(OutcomeMessages(attempts[j])) = 1

\* C13: once a loop body has ended, a send that failed for one user has
\* kept no other user who tracks the changed product through a resolvable
\* channel from being sent the alert of that event.
C13_FailureIsolated ==
    \A m \in 1..Len(sent) :
       (~sent[m].ok /\ (TaskDone \/ task.event # sent[m].event)) =>
           \A v \in UsersTracking(events[sent[m].event].product) \ {sent[m].user} :
               get_channel(get_notification_channel(user_channels, v)) =>
                   \E n \in 1..Len(sent) :
                      /\ sent[n].user = v
                      /\ sent[n].event = sent[m].event
                      /\ sent[n].kind = "alert"

\* ------------------------------------------------------------------------
\* Properties of the registry operations
\* ------------------------------------------------------------------------
\* the step is the command op (every command counts cmds_left down and
\* records itself in last_call)
IsCommand(op) == cmds_left' # cmds_left /\ last_call'.op = op

\* C14: track_remove and buylist_remove for a key the user does not have,
\* a user without any entry included, report False and change no registry
\* map; for a key the user has they report True, remove that key from the
\* user's entry and change nothing else.
C14_RemoveAbsentOrPresent ==
    [][ /\ IsCommand("track_remove") =>
             LET u == last_call'.user
                 k == last_call'.product
                 old == get_tracking_list(user_tracking, u)
                 new == get_tracking_list(user_tracking', u)
             IN /\ last_call'.ret = InList(k, old)
                /\ ~InList(k, old) => user_tracking' = user_tracking
                /\ InList(k, old) =>
                      /\ Count(k, new) = Count(k, old) - 1
                      /\ \A k2 \in Products \ {k} : Count(k2, new) = Count(k2, old)
                      /\ Len(user_tracking') = Len(user_tracking)
                      /\ \A i \in 1..Len(user_tracking) :
                            /\ user_tracking'[i].user = user_tracking[i].user
                            /\ user_tracking[i].user # u =>
                                  user_tracking'[i].list = user_tracking[i].list
                /\ UNCHANGED <<user_buylists, user_channels, stock_status>>
        /\ IsCommand("buylist_remove") =>
             LET u == last_call'.user
                 k == last_call'.product
                 had == u \in DOMAIN user_buylists /\ k \in DOMAIN user_buylists[u]
             IN /\ last_call'.ret = had
                /\ ~had => user_buylists' = user_buylists
                /\ had =>
                      /\ DOMAIN user_buylists' = DOMAIN user_buylists
                      /\ DOMAIN user_buylists'[u] = DOMAIN user_buylists[u] \ {k}
                      /\ \A k2 \in DOMAIN user_buylists'[u] :
                            user_buylists'[u][k2] = user_buylists[u][k2]
                      /\ \A v \in DOMAIN user_buylists \ {u} :
                            user_buylists'[v] = user_buylists[v]
                /\ UNCHANGED <<user_tracking, user_channels, stock_status>>
      ]_vars

\* track_remove was called by a user who has no entry while another user
\* has one; it reported False and the user still has no entry
C14_Witness ==
    /\ last_call.op = "track_remove"
    /\ last_call.ret = FALSE
    /\ last_call.user \notin TrackKeys(user_tracking)
    /\ last_call.user \notin DOMAIN user_buylists
    /\ user_tracking # <<>>

\* C15: what get_tracking_list or get_buylist returned keeps the contents
\* it had at the return whatever the registry does afterwards, and a write
\* the caller makes to it changes no registry map.
C15_ReturnsSnapshot ==
    /\ [](  (held.kind # "none" /\ ~held.wrote) =>
               Deref(held, user_tracking, user_buylists) =
                   [list |-> held.list, dict |-> held.dict] )
    /\ [][ (held'.wrote /\ ~held.wrote) => UNCHANGED dbVars ]_vars

\* ------------------------------------------------------------------------
\* Further properties of the request executor
\* ------------------------------------------------------------------------
\* the step issues one request attempt
Attempts == req'.issued = req.issued + 1
Ended == req'.pc = "done"
Retried == req'.pc = "attempt" /\ req'.attempt = req.attempt + 1
BudgetLeft == req.attempt + 1 < req.retries

\* C16: in both adapters, between attempts and at the return, the fixed
\* inter-request delay has been slept once for every request attempt made.
C16_DelayAfterEveryAttempt ==
    req.pc \in {"attempt", "done", "reported"} => req.pauses >= req.issued

\* C18: for GET and POST in both adapters, an attempt answered by a 2xx
\* status returns the body; by 404, or by any status other than 429 and
\* 5xx, ends the call as a failure; by 429 or 5xx is followed by another
\* attempt when budget remains and ends the call as a failure otherwise.
C18_Classification ==
    [][ (Attempts /\ req.method \in {"GET", "POST"} /\ req'.last.exc = "none") =>
          LET st == req'.last.status
          IN IF st \in 200..299 THEN Ended /\ req'.ok
             ELSE IF st = 429 \/ st >= 500
                  THEN IF BudgetLeft THEN Retried ELSE ~req'.ok
             ELSE Ended /\ ~req'.ok
      ]_vars

\* C19: in BaseRetailer._make_request a network or timeout error at attempt
\* index i with budget left is followed by another attempt, after a wait
\* of delay * 2^i plus a jitter of the server-error range.
C19_ErrorBackoff ==
    [][ (Attempts /\ req.adapter = "Base" /\ req'.last.exc # "none" /\ BudgetLeft) =>
          /\ Retried
          /\ Len(req'.waits) = Len(req.waits) + 1
          /\ \E jitter \in Jitter5xx :
                LastOf(req'.waits) = backoff_wait(req.delay, req.attempt, jitter)
      ]_vars

\* the failures a call may end with at once
ImmediateFailures ==
    {Return(req, FALSE, NoPage, exit) : exit \in {"not_found", "other"}}

\* C20: what a call that ran out of budget hands to its caller differs from
\* what a call ended by 404 or by another status hands to its caller.
C20_ExhaustedDistinct ==
    (Returned /\ req.exit = "exhausted") =>
        \A r \in ImmediateFailures : result(r) # result(req)

\* C17: when /track add of a user without an entry runs while the polling
\* task is parked in a send, the loop body still sends its alert to every
\* user who tracked the changed product through a resolvable channel when
\* the body began, as long as no send of the body failed.  (The entries of
\* u1 and u2 are constant in SpecJoin.)
C17_JoinKeepsFanOut ==
    \A e \in 1..Len(events) :
       ( /\ (TaskDone \/ task.event # e)
         /\ \A m \in 1..Len(sent) : sent[m].event = e => sent[m].ok )
       => \A v \in UsersTracking(events[e].product) :
             get_channel(get_notification_channel(user_channels, v)) =>
                 \E n \in 1..Len(sent) :
                    /\ sent[n].user = v /\ sent[n].event = e /\ sent[n].kind = "alert"

\* the outcomes of an attempt the retry policy lets the call try again after
RetryableOutcome(resp) ==
    resp.exc # "none" \/ resp.status = 429 \/ resp.status >= 500

AttemptsWithinBudget == req.issued <= req.retries

\* C21: a call with retry budget N never issues more than N request
\* attempts, issues an attempt after the first only when the attempt before
\* it ended in a retryable outcome (429, 5xx, network or timeout error),
\* and with N = 0 returns failure having issued none.
C21_BoundedRetries ==
    /\ [](AttemptsWithinBudget)
    /\ []((Returned /\ req.retries = 0) => (req.issued = 0 /\ ~req.ok))
    /\ [][ (Attempts /\ req.issued >= 1) => RetryableOutcome(req.last) ]_vars

\* ------------------------------------------------------------------------
\* Further properties of the polling task
\* ------------------------------------------------------------------------
\* the step is the visit of one entry of user_tracking by the for loop
Visits == task.pc = "iter" /\ task'.pc # "idle" /\ task'.it = task.it + 1
Subscriber == task'.pc \in {"alert_send", "check_buy"}

AttemptOrder ==
    [i \in 1..Len(deliveries) |-> deliveries[i].id]
        \o (IF consumer.msg = NoMsg THEN <<>> ELSE <<consumer.msg.id>>)
PendingIds == {notification_queue[i].id : i \in 1..Len(notification_queue)}
Dequeues == Len(notification_queue') < Len(notification_queue)
OutcomesSeen == {deliveries[i].outcome : i \in 1..Len(deliveries)}

\* C24: the consumer attempts delivery in the order of the puts, whichever
\* producer put the message: the attempted ids are increasing, and a message
\* still waiting was put after every message already attempted.
C24_DeliveryInPutOrder ==
    /\ \A i, j \in 1..Len(AttemptOrder) : i < j => AttemptOrder[i] < AttemptOrder[j]
    /\ \A i \in 1..Len(AttemptOrder) : \A id \in PendingIds : AttemptOrder[i] < id

\* one message was attempted, a second one of another producer is being sent
\* and a third one waits
C24_Witness ==
    /\ Len(deliveries) >= 1
    /\ consumer.pc = "send"
    /\ notification_queue # <<>>
    /\ consumer.msg.by # notification_queue[1].by

\* C25: a message taken from the queue is attempted at most once and never
\* put back; whatever way the attempt fails (recipient not found, forbidden,
\* server error, other exception), the consumer goes to its wait and from
\* there, the bot still open, to the next get.
C25_OneAttemptThenOn ==
    /\ [](/\ \A i, j \in 1..Len(AttemptOrder) : i # j => AttemptOrder[i] # AttemptOrder[j]
          /\ \A i \in 1..Len(AttemptOrder) : AttemptOrder[i] \notin PendingIds)
    /\ [][ Len(deliveries') > Len(deliveries) =>
              /\ consumer'.pc = "sleep"
              /\ Len(notification_queue') <= Len(notification_queue) ]_vars
    /\ [][ (consumer.pc = "sleep" /\ consumer' # consumer /\ ~bot_closed) =>
              consumer'.pc = "get" ]_vars

\* two attempts failed in different ways and the third message was delivered
C25_Witness ==
    /\ Len(deliveries) = 3
    /\ deliveries[1].outcome \in SendFailures \cup {"not_found"}
    /\ deliveries[2].outcome \in SendFailures \cup {"not_found"}
    /\ deliveries[1].outcome # deliveries[2].outcome
    /\ deliveries[3].outcome = "delivered"

\* C26: between two consecutive gets the consumer has slept: at every get the
\* number of sleeps done equals the number of messages taken before, whether
\* they were delivered, failed or had no recipient.
C26_WaitBetweenGets ==
    [][ Dequeues => consumer.naps = Len(deliveries) ]_vars

\* three messages were taken, one delivered, one failed, one without
\* recipient
C26_Witness ==
    /\ Len(deliveries) = 3
    /\ "delivered" \in OutcomesSeen
    /\ "not_found" \in OutcomesSeen
    /\ OutcomesSeen \cap SendFailures # {}

\* C27: a put never waits: as long as the run has puts left, every producer
\* can put, whatever the consumer is doing and however many messages wait;
\* the put changes neither the consumer nor the messages taken.
C27_PutNeverBlocks ==
    /\ [](Enqueued < MaxMsgs => \A by \in Producers, u \in Users : ENABLED Enqueue(by, u))
    /\ [][ Len(notification_queue') > Len(notification_queue) =>
              /\ consumer' = consumer
              /\ deliveries' = deliveries ]_vars

\* two messages wait, one put while the consumer was in a send and one while
\* it slept
C27_Witness ==
    /\ Len(notification_queue) >= 2
    /\ \E i, j \in 1..Len(notification_queue) :
          /\ notification_queue[i].during = "send"
          /\ notification_queue[j].during = "sleep"

\* ------------------------------------------------------------------------
\* Properties of the polling task's lifetime
\* ------------------------------------------------------------------------
BodyStarts == nticks' = nticks + 1

\* C28: loop bodies never overlap: a body starts only when the previous one
\* has ended, by completion or by its except clause, and every message a body
\* sends or purchase block it enters is about the event of the newest body.
C28_TicksDoNotOverlap ==
    /\ [][ BodyStarts => task.pc = "idle" ]_vars
    /\ [][ sent' # sent => events[LastOf(sent').event].tick = nticks ]_vars
    /\ [][ attempts' # attempts => events[LastOf(attempts').event].tick = nticks ]_vars

\* two bodies have each sent messages, one of them suspended in more than
\* one send, and a third body has ended
C28_Witness ==
    /\ TaskDone
    /\ nticks = 3
    /\ \E i, j \in 1..Len(sent) :
          /\ i + 1 < j
          /\ sent[i].event = sent[i + 1].event
          /\ events[sent[i].event].tick < events[sent[j].event].tick

CancelArrives == cancelled' /\ ~cancelled

\* C29: once cog_unload has cancelled the polling task no body starts, and a
\* body that was running when the cancellation arrived is left at its
\* suspension point to run to its end.
C29_CancelLetsBodyFinish ==
    /\ [][ cancelled => ~BodyStarts ]_vars
    /\ [][ CancelArrives => task' = task ]_vars

\* C30: a purchase block in flight when shutdown is requested has its result
\* sent, or put on the notification queue, by the time cog_unload returns.
C30_OutcomeWrittenOnShutdown ==
    [][ (CancelArrives /\ task.pc = "purchase_send") =>
           \/ OutcomeMessages(LastOf(attempts))' # {}
           \/ Len(notification_queue') > Len(notification_queue) ]_vars

\* ------------------------------------------------------------------------
\* Properties of check_stock
\* ------------------------------------------------------------------------
CheckStockStep == (req.caller = "check_stock" /\ req' # req) \/ checked' # checked
\* the request of both calls ended on the same answer and the same page
SameAnswers == checked.last = req.last /\ checked.body = req.body

C32_LastWriterWins ==
    /\ last_call.op = "buylist_add" =>
          /\ last_call.user \in DOMAIN user_buylists
          /\ last_call.product \in DOMAIN get_buylist(user_buylists, last_call.user)
          /\ get_buylist(user_buylists, last_call.user)[last_call.product]
                = last_call.threshold
    /\ last_call.op = "settings_channel" =>
          get_notification_channel(user_channels, last_call.user) = last_call.channel

\* the last call replaced another threshold of the same user and product,
\* and the user's channel had been set before
C32_Witness ==
    /\ last_call.op = "buylist_add"
    /\ last_call.replaced
    /\ last_call.user \in DOMAIN user_channels

\* a list, or a dict, without the key k
ListWithout(list, k) == SelectSeq(list, LAMBDA x : x # k)
DictWithout(d, k) == [x \in (DOMAIN d) \ {k} |-> d[x]]
RegistryOps == {"track_add", "track_remove", "buylist_add", "buylist_remove",
                "settings_channel"}
\* what the registry holds for user v
TrackingOf(ut, v) == [has |-> v \in TrackKeys(ut), list |-> get_tracking_list(ut, v)]
BuylistOf(ub, v) == [has |-> v \in DOMAIN ub, dict |-> get_buylist(ub, v)]
ChannelOf(uc, v) == [has |-> v \in DOMAIN uc, id |-> get_notification_channel(uc, v)]

\* C33: a registry command of user u for key k changes nothing of any other
\* user, and of u only what is stored under k: the other products of u's
\* tracking list and buylist stay, in their order, and the parts of the
\* registry the command is not about stay as they are.
C33_SingleKeyWrites ==
    [][ \A op \in RegistryOps : IsCommand(op) =>
          LET u == last_call'.user
              k == last_call'.product
          IN /\ \A v \in Users \ {u} :
                   /\ TrackingOf(user_tracking', v) = TrackingOf(user_tracking, v)
                   /\ BuylistOf(user_buylists', v) = BuylistOf(user_buylists, v)
                   /\ ChannelOf(user_channels', v) = ChannelOf(user_channels, v)
             /\ ListWithout(get_tracking_list(user_tracking', u), k)
                   = ListWithout(get_tracking_list(user_tracking, u), k)
             /\ DictWithout(get_buylist(user_buylists', u), k)
                   = DictWithout(get_buylist(user_buylists, u), k)
             /\ op \in {"track_add", "track_remove"} =>
                   /\ user_buylists' = user_buylists
                   /\ user_channels' = user_channels
             /\ op \in {"buylist_add", "buylist_remove"} =>
                   /\ user_tracking' = user_tracking
                   /\ user_channels' = user_channels
             /\ op = "settings_channel" =>
                   /\ user_tracking' = user_tracking
                   /\ user_buylists' = user_buylists
      ]_vars

\* a threshold of u was removed and u keeps the one of another product
C33_Witness ==
    /\ last_call.op = "buylist_remove"
    /\ last_call.ret
    /\ DOMAIN get_buylist(user_buylists, last_call.user) # {}

\* ------------------------------------------------------------------------
\* Properties of the Walmart cart
\* ------------------------------------------------------------------------
NewCalls(i) == SubSeq(buys'[i].calls, Len(buys[i].calls) + 1, Len(buys'[i].calls))
\* the attempts whose add_to_cart failed; they made no other adapter call
CartFailed == {i \in 1..MaxBuys : buys[i].calls = <<AdapterCall("add_to_cart", FALSE)>>}

\* C34: a checkout that succeeds comes right after an add_to_cart of the
\* same attempt that returned True, in the same step, so that no other
\* add_to_cart on the adapter lies between them; at Walmart that add_to_cart
\* has stored a cart id. An attempt whose add_to_cart failed makes no
\* checkout, whatever cart id an earlier call has left.
C34_CheckoutNeedsOwnCart ==
    /\ [][ \A i \in 1..MaxBuys :
             (\E j \in 1..Len(NewCalls(i)) : NewCalls(i)[j] = AdapterCall("checkout", TRUE)) =>
                 /\ NewCalls(i) = <<AdapterCall("add_to_cart", TRUE),
                                    AdapterCall("checkout", TRUE)>>
                 /\ buys[i].calls = <<>>
                 /\ buys[i].retailer = "walmart" => (cart_id' # NoCart /\ csrf_token' # NoToken)
         ]_vars
    /\ [](\A i \in 1..MaxBuys :
             (\E j \in 1..Len(buys[i].calls) : buys[i].calls[j] = AdapterCall("add_to_cart", FALSE))
                 => i \in CartFailed)

\* a Walmart attempt's add_to_cart failed while a cart id is stored, after
\* another Walmart attempt had checked out, and it made no checkout
C34_Witness ==
    \E i, j \in 1..MaxBuys :
       /\ i \in CartFailed
       /\ buys[i].retailer = "walmart" /\ buys[i].pc = "done"
       /\ buys[j].retailer = "walmart" /\ Purchased(buys[j].calls)
       /\ cart_id # NoCart

\* ------------------------------------------------------------------------
\* Properties of buylist entries of products no longer tracked
\* ------------------------------------------------------------------------
TracksNow(u, k) == InList(k, get_tracking_list(user_tracking, u))

\* C35: remove_from_tracking leaves the buylists as they are, and the loop
\* body starts an alert or enters a purchase block for user u and product k
\* only while k is in u's tracking list.
C35_UntrackedNeverTriggers ==
    /\ [][ IsCommand("track_remove") => user_buylists' = user_buylists ]_vars
    /\ [][ (task'.pc = "alert_send" /\ task.pc # "alert_send") =>
              TracksNow(task'.user_id, task'.product) ]_vars
    /\ [][ attempts' # attempts =>
              TracksNow(LastOf(attempts').user, LastOf(attempts').product) ]_vars

\* ------------------------------------------------------------------------
\* Properties of the simulated stock table
\* ------------------------------------------------------------------------
\* C36: every product's entry has a price exactly when it is in stock, and
\* the price is one random.uniform can draw; a change of the table flips
\* in_stock of one product, keeps its url, and leaves the other entries and
\* the set of keys as they were.
C36_StockTableShape ==
    /\ [](/\ DOMAIN stock_status = Products
          /\ \A p \in Products :
                /\ stock_status[p].in_stock <=> stock_status[p].price # NoPrice
                /\ stock_status[p].in_stock => stock_status[p].price \in Prices)
    /\ [][ stock_status' # stock_status =>
             /\ DOMAIN stock_status' = DOMAIN stock_status
             /\ \E k \in Products :
                   /\ stock_status'[k].in_stock = ~stock_status[k].in_stock
                   /\ stock_status'[k].url = stock_status[k].url
                   /\ \A p \in Products \ {k} : stock_status'[p] = stock_status[p] ]_vars
    /\ [][ (IsCommand("simulate") \/ (BodyStarts /\ events' # events)) =>
             stock_status' # stock_status ]_vars

\* /simulate and a loop body have both changed the table, the body taking a
\* product out of stock
C36_Witness ==
    /\ last_call.op = "simulate"
    /\ Len(events) >= 1
    /\ events[1].previous.in_stock
    /\ ~events[1].current.in_stock

\* C37: for every adapter, over initialize, close and _make_request calls, the
\* initialized flag is set exactly when a session is held and exactly one
\* session is then open; initialize on an adapter that holds a session leaves
\* that session in place; a request is issued only while a session is held;
\* and once _make_request is past its first line a session is held, one
\* having been created if there was none.
C37_SessionDiscipline ==
    /\ [](/\ session.initialized <=> session.held
          /\ session.live = IF session.held THEN 1 ELSE 0)
    /\ [][ (session.held /\ session'.held) => session' = session ]_vars
    /\ [][ req'.issued > req.issued => session.held ]_vars
    /\ [](req.pc = "attempt" => session.held)
====
